---- MODULE Spec2Model ----
(***************************************************************************)
(* Scully: the browser-side TransferStateService (transfer-state.service.ts)*)
(* and the build-time route discovery (traverseAppRoutes, addExtraRoutes).  *)
(*                                                                          *)
(* JavaScript strings that the code takes apart (URLs, routes) are tuples   *)
(* of one-character strings, so that split, trim, endsWith and slice are    *)
(* computed as the code computes them.  The RxJS pipelines are modelled by  *)
(* the state their operators hold: shareReplay's connection and buffer,     *)
(* the url the second switchMap waits for, the tracking subscriptions made  *)
(* by fetchTransferState and the promises their switchMap has started.      *)
(***************************************************************************)
EXTENDS Integers, Sequences, FiniteSets, TLC

VARIABLES
    started,         \* startMonitoring() has run
    env,             \* window['ScullyIO']: "running", "generated" or "none"
    inlineOnly,      \* TransferStateService.inlineOnly
    initialUrl,      \* TransferStateService.initialUrl
    currentBaseUrl,  \* TransferStateService.currentBaseUrl
    stateBS,         \* the value held by the BehaviorSubject stateBS
    script,          \* textContent of the script element written by saveState
    routerNav,       \* the router's navigation in progress (url of its NavigationStart)
    srcOn,           \* shareReplay(1) of nextUrl is connected to router.events
    waitEnd,         \* the NavigationStart url whose NavigationEnd nextUrl waits for
    replay,          \* the value buffered by shareReplay(1)
    subs,            \* the subscriptions made at line 169, in order of creation
    fetches,         \* the promises of readFromJson/readFromIndex not yet settled
    nTimer,          \* fetchTransferState calls waiting at line 159 (setTimeout)
    nWait,           \* fetchTransferState calls waiting at line 161 (no url yet)
    readers,         \* keys with a subscribed getState(key) observable
    delivered,       \* the last value each reader received
    driverError,     \* an error reached the subscriber of line 186
    pathname,        \* window.location.pathname when the page was loaded
    nNavs,           \* history: number of NavigationStart events
    paired,          \* history: every navigation so far ran from its start to its end
    nEmit,           \* history: number of values nextUrl emitted
    prevUrl,         \* history: the value nextUrl emitted before the buffered one
    lastNav,         \* history: the navigation that caused the last emission
    nFetch,          \* history: number of fetches started
    nGets,           \* history: number of getState calls
    nSets,           \* history: number of setState calls
    lastPub,         \* history: emission n whose data the driver published last
                     \*          (-n: {} after its fetch failed, 0: nothing yet)
    undefSince,      \* history: stateBS was undefined at some point since lastPub
    lastOp,          \* history: the last operation and what it started from
    rpc,             \* route discovery: position in traverseAppRoutes
    cfg,             \* route discovery: scullyConfig, file system, parser, flags
    extra,           \* route discovery: outcome of addExtraRoutes
    out,             \* route discovery: outcome of traverseAppRoutes
    logs             \* route discovery: what was logged

svcVars == <<started, env, inlineOnly, initialUrl, currentBaseUrl, stateBS, script,
             routerNav, srcOn, waitEnd, replay, subs, fetches, nTimer, nWait,
             readers, delivered, driverError, pathname, nNavs, paired, nEmit,
             prevUrl, lastNav, nFetch, nGets, nSets, lastPub, undefSince, lastOp>>
routeVars == <<rpc, cfg, extra, out, logs>>
vars == <<svcVars, routeVars>>

----------------------------------------------------------------------------
(* Bounds of the model *)
MaxNavs == 3
MaxGets == 2
MaxSets == 1

----------------------------------------------------------------------------
(* JavaScript strings and values *)

\* the JavaScript value undefined, where a string is expected
Undefined == <<"undefined">>

IsBlank(c) == c \in {" ", "\t", "\n"}

RECURSIVE TrimStart(_)
TrimStart(s) == IF s # <<>> /\ IsBlank(Head(s)) THEN TrimStart(Tail(s)) ELSE s

RECURSIVE TrimEnd(_)
TrimEnd(s) ==
    IF s # <<>> /\ IsBlank(s[Len(s)]) THEN TrimEnd(SubSeq(s, 1, Len(s) - 1)) ELSE s

\* String.prototype.trim
Trim(s) == TrimEnd(TrimStart(s))

RECURSIVE SplitFrom(_, _, _)
SplitFrom(s, i, cur) ==
    IF i > Len(s) THEN <<cur>>
    ELSE IF s[i] = "/" THEN <<cur>> \o SplitFrom(s, i + 1, <<>>)
    ELSE SplitFrom(s, i + 1, Append(cur, s[i]))

\* url.split('/')
Split(s) == SplitFrom(s, 1, <<>>)

NonBlankPart(p) == Trim(p) # <<>>

\* the helper `base` of fetchTransferState: the first non-blank path part
base(url) ==
    LET parts == SelectSeq(Split(url), NonBlankPart)
    IN  IF parts = <<>> THEN Undefined ELSE parts[1]

initialStateDone == <<"__done__with__Initial__navigation__">>
NoSection == <<"/", "/">>
NoPathname == <<"__no_NO_no__">>

----------------------------------------------------------------------------
(* State snapshots, JSON text and the embedded payload *)

Keys == {"k1", "k2"}
KeyOrder == <<"k1", "k2">>
Vals == {"v1"}

\* a State object: the set of its <<key, value>> members
Obj(kv) == [tag |-> "obj", kv |-> kv]
\* the transient snapshot stateBS.next(undefined)
UndefState == [tag |-> "undefined", kv |-> {}]
EmptyState == Obj({})

Has(kv, k) == \E p \in kv : p[1] = k
\* obj[k]: the member's value, "undefined" when there is none
Get(kv, k) == IF Has(kv, k) THEN (CHOOSE p \in kv : p[1] = k)[2] ELSE "undefined"

\* Spread with the previous snapshot forgotten
SpreadMutReplace(state, name, val) == Obj({<<name, val>>})

\* {...state, [name]: val}; spreading undefined adds nothing
Spread(state, name, val) ==
    Obj({p \in state.kv : p[1] # name} \cup {<<name, val>>})

Tok(t, v) == [t |-> t, v |-> v]
SCULLY_STATE_START == Tok("start", <<>>)
SCULLY_STATE_END == Tok("end", <<>>)
ScriptAssign == Tok("window['ScullyIO-transfer-state']=", <<>>)
OtherText == Tok("text", <<>>)
BadJson == Tok("json", <<<<"{", "{">>>>)

\* a string value that holds the text of the end sentinel
EndMarkVal == "/** ___SCULLY_STATE_END___ */"
\* the values setState can be given: plain data, undefined, such a string
StateVals == Vals \cup {"undefined", EndMarkVal}

IsMember(m) == m[1] \in Keys
\* JSON.stringify of a State object: its members, in key order; a member
\* whose value is undefined is left out, and the text of a string value
\* stands in the JSON text as it is, the text of a sentinel included
stringify(kv) ==
    LET present == SelectSeq(KeyOrder, LAMBDA k : Has(kv, k) /\ Get(kv, k) # "undefined")
        members == [i \in 1..Len(present) |-> <<present[i], Get(kv, present[i])>>]
        marked == {i \in 1..Len(members) : members[i][2] = EndMarkVal}
    IN  IF marked = {} THEN <<Tok("json", members)>>
        ELSE LET i == CHOOSE j \in marked : \A l \in marked : j <= l
             IN  << Tok("json, cut in a string", Append(SubSeq(members, 1, i - 1), <<members[i][1]>>)),
                    SCULLY_STATE_END,
                    Tok("json, rest of a string", SubSeq(members, i + 1, Len(members))) >>

\* JSON.parse: the text must be exactly one well-formed JSON value
parses(text) ==
    /\ Len(text) = 1
    /\ text[1].t = "json"
    /\ \A i \in 1..Len(text[1].v) : IsMember(text[1].v[i])
parse(text) == {text[1].v[i] : i \in 1..Len(text[1].v)}

\* positions of a marker in a text
Marks(text, m) == {i \in 1..Len(text) : text[i] = m}
Min(S) == CHOOSE x \in S : \A y \in S : x <= y

\* text.split(m)[1]: what lies between the first and the second marker;
\* undefined (here: no part) when the text holds no marker
HasPart1(text, m) == Marks(text, m) # {}
Part1(text, m) ==
    LET i == Min(Marks(text, m))
        later == {j \in Marks(text, m) : j > i}
    IN  SubSeq(text, i + 1, IF later = {} THEN Len(text) ELSE Min(later) - 1)
\* text.split(m)[0]
Part0(text, m) ==
    IF Marks(text, m) = {} THEN text ELSE SubSeq(text, 1, Min(Marks(text, m)) - 1)

Resolved(kv) == [ok |-> TRUE, kv |-> kv, why |-> "ok"]
Rejected(why) == [ok |-> FALSE, kv |-> {}, why |-> why]

\* the then-callback of readFromIndex (lines 200-203)
readFromIndex(html) ==
    IF ~HasPart1(html, SCULLY_STATE_START) THEN Rejected("no markers")
    ELSE LET newStateStr == Part0(Part1(html, SCULLY_STATE_START), SCULLY_STATE_END)
         IN  IF parses(newStateStr) THEN Resolved(parse(newStateStr))
             ELSE Rejected("parse error")

\* script.textContent written by saveState (lines 137-139)
Payload(newState) ==
    <<ScriptAssign, SCULLY_STATE_START>> \o stringify(newState.kv) \o <<SCULLY_STATE_END>>

----------------------------------------------------------------------------
(* The pages of the generated site and what the server answers *)

UrlA1 == <<"/", "a", "/", "1">>
UrlA2 == <<"/", "a", "/", "2">>
UrlB1 == <<"/", "b", "/", "1">>
Urls == {UrlA1, UrlA2, UrlB1}
\* urlAfterRedirects of a NavigationEnd: empty, or where the router redirects url
Redirects(url) == IF url = UrlA2 THEN {<<>>, UrlB1} ELSE {<<>>}
\* window.location.pathname of the loaded page
Pathnames == {<<>>, UrlA1 \o <<"/">>}

DataVal(u) == CASE u = UrlA1 -> "dA1" [] u = UrlA2 -> "dA2" [] OTHER -> "dB1"
\* the state generated for page u
DataOf(u) == {<<"k1", DataVal(u)>>}
SeedState == Obj({<<"k1", "v0">>, <<"k2", "v0">>})

\* what fetchHttp settles with: a parsed data.json, an index.html, or a rejection
Response(ok, kv, html) == [ok |-> ok, kv |-> kv, html |-> html]
HtmlDocs(u) ==
    { <<OtherText>> \o Payload(Obj(DataOf(u))) \o <<OtherText>>,
      <<OtherText>>,
      <<OtherText, ScriptAssign, SCULLY_STATE_START>> \o stringify(DataOf(u)) \o <<OtherText>>,
      <<ScriptAssign, SCULLY_STATE_START, BadJson, SCULLY_STATE_END>> }
Responses(u, inline) ==
    {Response(FALSE, {}, <<>>)} \cup
    IF inline THEN {Response(TRUE, {}, h) : h \in HtmlDocs(u)}
    ELSE {Response(TRUE, DataOf(u), <<>>)}

\* the promise made at line 174, settled with response r
FetchResult(r, inline) ==
    IF ~r.ok THEN Rejected("fetch error")
    ELSE IF inline THEN readFromIndex(r.html)
    ELSE Resolved(r.kv)

----------------------------------------------------------------------------
(* The rehydration driver: what fetchTransferState subscribes and fetches *)

\* the driver's part of the state, threaded through one synchronous run
Driver == [cur |-> currentBaseUrl, subs |-> subs, fetches |-> fetches, n |-> nFetch]

LiveFetch(D, i) == \E f \in D.fetches : f.sub = i /\ f.live

\* SwitchToFetch as exhaustMap would do it: keep the promise in flight
SwitchToFetchMutExhaust(D, i, url, idx) ==
    IF LiveFetch(D, i) THEN D
    ELSE [D EXCEPT !.fetches = @ \cup {[sub |-> i, url |-> url, idx |-> idx, live |-> TRUE]},
                   !.n = @ + 1]

\* SwitchToFetch as mergeMap would do it: the promise in flight stays subscribed
SwitchToFetchMutMerge(D, i, url, idx) ==
    [D EXCEPT !.fetches = @ \cup {[sub |-> i, url |-> url, idx |-> idx, live |-> TRUE]},
              !.n = @ + 1]

\* switchMap at line 174: drop the promise in flight, start the one for url
SwitchToFetch(D, i, url, idx) ==
    [D EXCEPT !.fetches = {[f EXCEPT !.live = (f.sub # i) /\ f.live] : f \in D.fetches}
                            \cup {[sub |-> i, url |-> url, idx |-> idx, live |-> TRUE]},
              !.n = @ + 1]

\* the subscriber's complete callback (lines 188-191)
Complete(D, i) == [D EXCEPT !.subs[i].st = "done", !.cur = NoSection]

\* takeWhile at line 172 saw its predicate fail: the source is done, and
\* switchMap completes once the promise it still holds has settled
SourceDone(D, i) ==
    IF LiveFetch(D, i) THEN [D EXCEPT !.subs[i].st = "draining"] ELSE Complete(D, i)

\* subscription i (lines 169-192) receives url from nextUrl
OnUrl(D, i, url, idx) ==
    IF D.subs[i].st # "tracking" THEN D
    ELSE IF base(url) = D.cur THEN SwitchToFetch(D, i, url, idx)
    ELSE SourceDone(D, i)

RECURSIVE OnUrlFrom(_, _, _, _)
\* nextUrl delivers url to its subscribers in the order they subscribed
OnUrlFrom(D, i, url, idx) ==
    IF i > Len(D.subs) THEN D ELSE OnUrlFrom(OnUrl(D, i, url, idx), i + 1, url, idx)

\* fetchTransferState from line 162 on, with currentUrl in hand; the new
\* subscription receives the replayed url at once
fetchTransferState(D, currentUrl, idx) ==
    LET baseUrl == base(currentUrl)
    IN  IF D.cur = baseUrl THEN D
        ELSE OnUrl([D EXCEPT !.cur = baseUrl,
                             !.subs = Append(@, [st |-> "tracking", base |-> baseUrl])],
                   Len(D.subs) + 1, currentUrl, idx)

RECURSIVE ResumeWaiting(_, _, _, _)
\* the calls waiting at line 161 resume, one after the other
ResumeWaiting(D, n, url, idx) ==
    IF n = 0 THEN D ELSE ResumeWaiting(fetchTransferState(D, url, idx), n - 1, url, idx)

SetDriver(D) ==
    /\ currentBaseUrl' = D.cur
    /\ subs' = D.subs
    /\ fetches' = D.fetches
    /\ nFetch' = D.n

\* Deliver without the filter of state$
DeliverMutNoFilter(state) ==
    [k \in Keys |-> IF k \in readers THEN Get(state.kv, k) ELSE delivered[k]]

\* stateBS.next(state): state$ passes defined snapshots on, pluck takes the key
Deliver(state) ==
    IF state.tag = "undefined" THEN delivered
    ELSE [k \in Keys |-> IF k \in readers THEN Get(state.kv, k) ELSE delivered[k]]

RECURSIVE Text(_)
\* a string of the code, written out for the history
Text(s) == IF s = <<>> THEN "" ELSE Head(s) \o Text(Tail(s))

\* history: the operation that ran last, with its arguments
Op(op, key, val, how) == [op |-> op, key |-> key, val |-> val, how |-> how]

----------------------------------------------------------------------------
(* Operations of the service *)

Envs == {"running", "generated", "none"}

\* what the window holds when the service starts: the flag and the embedded
\* state are injected into generated pages, the exposed state into Scully's
\* own browser
Windows(e) ==
    IF e = "generated"
    THEN [inline : BOOLEAN, path : Pathnames, seeded : BOOLEAN]
    ELSE IF e = "running" THEN [inline : {FALSE}, path : {<<>>}, seeded : BOOLEAN]
    ELSE [inline : {FALSE}, path : {<<>>}, seeded : {FALSE}]

\* the keys the page's components read with getState
ReadKeys == {"k1"}

\* saveState (lines 135-141)
saveState(newState) == IF env = "running" THEN Payload(newState) ELSE script

\* lines 102-106: the pathname, or a placeholder, without its trailing slash
InitialUrlOf(path) ==
    LET u == IF path # <<>> THEN path ELSE NoPathname
    IN  IF u # <<"/">> /\ u[Len(u)] = "/" THEN SubSeq(u, 1, Len(u) - 1) ELSE u

\* startMonitoring (lines 81-87) with setupEnvForTransferState and
\* setupStartNavMonitoring; the window holds the injected flag, the exposed
\* state (running) or the state of the embedded script (generated)
startMonitoring(inline, path, seeded) ==
    /\ ~started
    /\ started' = TRUE
    /\ inlineOnly' = inline
    /\ pathname' = path
    /\ IF env = "running"
         THEN /\ stateBS' = IF seeded THEN SeedState ELSE stateBS
              /\ script' = IF seeded THEN saveState(SeedState) ELSE <<>>
              /\ UNCHANGED initialUrl
         ELSE IF env = "generated"
         THEN /\ initialUrl' = InitialUrlOf(path)
              /\ stateBS' = IF seeded THEN SeedState ELSE EmptyState
              /\ UNCHANGED script
         ELSE UNCHANGED <<initialUrl, stateBS, script>>
    /\ srcOn' = (env = "generated")
    /\ lastOp' = Op("startMonitoring", "", "", "")
    /\ UNCHANGED <<env, currentBaseUrl, routerNav, waitEnd, replay, subs, fetches,
                   nTimer, nWait, readers, delivered, driverError, nNavs, paired,
                   nEmit, prevUrl, lastNav, nFetch, nGets, nSets, lastPub,
                   undefSince>>

\* getState (lines 118-122); its caller subscribes to the observable it returns
getState(name) ==
    /\ started /\ nGets < MaxGets
    /\ nGets' = nGets + 1
    /\ nTimer' = nTimer + 1
    /\ readers' = readers \cup {name}
    /\ delivered' = IF stateBS.tag = "undefined" THEN delivered
                    ELSE [delivered EXCEPT ![name] = Get(stateBS.kv, name)]
    /\ lastOp' = Op("getState", name, "", stateBS.tag)
    /\ UNCHANGED <<started, env, inlineOnly, initialUrl, currentBaseUrl, stateBS,
                   script, routerNav, srcOn, waitEnd, replay, subs, fetches, nWait,
                   driverError, pathname, nNavs, paired, nEmit, prevUrl, lastNav,
                   nFetch, nSets, lastPub, undefSince>>

\* setState (lines 129-133)
setState(name, val) ==
    /\ started /\ nSets < MaxSets
    /\ nSets' = nSets + 1
    /\ LET newState == Spread(stateBS, name, val)
       IN  /\ stateBS' = newState
           /\ delivered' = Deliver(newState)
           /\ script' = saveState(newState)
    /\ lastOp' = Op("setState", name, val, stateBS.tag)
    /\ UNCHANGED <<started, env, inlineOnly, initialUrl, currentBaseUrl, routerNav,
                   srcOn, waitEnd, replay, subs, fetches, nTimer, nWait, readers,
                   driverError, pathname, nNavs, paired, nEmit, prevUrl, lastNav,
                   nFetch, nGets, lastPub, undefSince>>

\* the timer of line 159 fires: line 161 takes the replayed url, or waits
\* for the next one (connecting nextUrl to the router if nothing has yet)
TimerFires ==
    /\ nTimer > 0
    /\ nTimer' = nTimer - 1
    /\ srcOn' = TRUE
    /\ IF srcOn /\ replay # Undefined
         THEN /\ SetDriver(fetchTransferState(Driver, replay, nEmit))
              /\ UNCHANGED nWait
         ELSE /\ nWait' = nWait + 1
              /\ UNCHANGED <<currentBaseUrl, subs, fetches, nFetch>>
    /\ lastOp' = Op("timer", "", "", "")
    /\ UNCHANGED <<started, env, inlineOnly, initialUrl, stateBS, script, routerNav,
                   waitEnd, replay, readers, delivered, driverError, pathname, nNavs,
                   paired, nEmit, prevUrl, lastNav, nGets, nSets, lastPub, undefSince>>

\* ResetOnStart as a driver that leaves the tracked base route alone would do it
ResetOnStartMutKeepInBase(url) ==
    IF base(url) = currentBaseUrl THEN stateBS ELSE UndefState

\* the tap of line 67: the snapshot published for a NavigationStart(url)
\* that was let through
ResetOnStart(url) == UndefState

\* the router emits NavigationStart(url): lines 57-69 of nextUrl
NavigationStart(url) ==
    /\ started /\ nNavs < MaxNavs
    /\ routerNav' = url
    /\ nNavs' = nNavs + 1
    /\ paired' = (paired /\ routerNav = Undefined)
    /\ IF ~srcOn THEN UNCHANGED <<initialUrl, stateBS, delivered, waitEnd, undefSince>>
       ELSE IF initialUrl = url
       THEN /\ initialUrl' = initialStateDone
            /\ UNCHANGED <<stateBS, delivered, waitEnd, undefSince>>
       ELSE /\ stateBS' = ResetOnStart(url)
            /\ delivered' = Deliver(ResetOnStart(url))
            /\ undefSince' = TRUE
            /\ waitEnd' = url
            /\ UNCHANGED initialUrl
    /\ lastOp' = Op("NavigationStart", "", "", "")
    /\ UNCHANGED <<started, env, inlineOnly, currentBaseUrl, script, srcOn, replay,
                   subs, fetches, nTimer, nWait, readers, driverError,
                   pathname, nEmit, prevUrl, lastNav, nFetch, nGets, nSets, lastPub>>

\* nextUrl emits url (lines 75-76) to the tracking subscriptions, then the
\* calls waiting at line 161 resume
Emit(url) ==
    /\ replay' = url
    /\ prevUrl' = replay
    /\ nEmit' = nEmit + 1
    /\ lastNav' = nNavs
    /\ SetDriver(ResumeWaiting(OnUrlFrom(Driver, 1, url, nEmit + 1), nWait, url, nEmit + 1))
    /\ nWait' = 0

\* ResolvedUrl with the redirect ignored
ResolvedUrlMutNoRedirect(url, after) == url

\* line 75: ev.urlAfterRedirects || ev.url
ResolvedUrl(url, after) == IF after # <<>> THEN after ELSE url

\* the router emits NavigationEnd(routerNav, after): lines 69-76 of nextUrl
NavigationEnd(after) ==
    /\ routerNav # Undefined
    /\ routerNav' = Undefined
    /\ IF srcOn /\ waitEnd = routerNav
         THEN /\ waitEnd' = Undefined
              /\ Emit(ResolvedUrl(routerNav, after))
              /\ lastOp' = Op("NavigationEnd", "", Text(after), "emit")
         ELSE /\ UNCHANGED <<waitEnd, replay, prevUrl, nEmit, lastNav, currentBaseUrl,
                             subs, fetches, nFetch, nWait>>
              /\ lastOp' = Op("NavigationEnd", "", "", "")
    /\ UNCHANGED <<started, env, inlineOnly, initialUrl, stateBS, script, srcOn,
                   nTimer, readers, delivered, driverError, pathname, nNavs, paired,
                   nGets, nSets, lastPub, undefSince>>

\* the router cancels the navigation in progress: no NavigationEnd follows
NavigationCancel ==
    /\ routerNav # Undefined
    /\ routerNav' = Undefined
    /\ paired' = FALSE
    /\ lastOp' = Op("NavigationCancel", "", "", "")
    /\ UNCHANGED <<started, env, inlineOnly, initialUrl, currentBaseUrl, stateBS,
                   script, srcOn, waitEnd, replay, subs, fetches, nTimer, nWait,
                   readers, delivered, driverError, pathname, nNavs, nEmit, prevUrl,
                   lastNav, nFetch, nGets, nSets, lastPub, undefSince>>

\* catchError that lets the error through
catchErrorMutRethrow(r) ==
    IF r.ok THEN [error |-> FALSE, state |-> Obj(r.kv)]
    ELSE [error |-> TRUE, state |-> UndefState]

\* catchError at lines 175-180: an error becomes the emission of({})
catchError(r) ==
    IF r.ok THEN [error |-> FALSE, state |-> Obj(r.kv)]
    ELSE [error |-> FALSE, state |-> EmptyState]

\* the pipeline of lines 174-192 after promise f of a subscription that still
\* holds it settled with r
AfterFetch(D, f, r) ==
    IF ~r.ok \/ D.subs[f.sub].st = "draining" THEN Complete(D, f.sub) ELSE D

\* a promise started at line 174 settles with response resp
FetchSettles(f, resp) ==
    /\ f \in fetches
    /\ LET r == FetchResult(resp, inlineOnly)
           D == [Driver EXCEPT !.fetches = @ \ {f}]
       IN  IF ~f.live
           THEN /\ SetDriver(D)
                /\ lastOp' = Op("settle", "superseded", "", r.why)
                /\ UNCHANGED <<stateBS, delivered, driverError, lastPub, undefSince>>
           ELSE LET c == catchError(r)
                IN  /\ SetDriver(AfterFetch(D, f, r))
                    /\ stateBS' = IF c.error THEN stateBS ELSE c.state
                    /\ delivered' = IF c.error THEN delivered ELSE Deliver(c.state)
                    /\ driverError' = (driverError \/ c.error)
                    /\ lastPub' = IF c.error THEN lastPub ELSE IF r.ok THEN f.idx ELSE 0 - f.idx
                    /\ undefSince' = (c.error /\ undefSince)
                    /\ lastOp' = Op("settle", subs[f.sub].st, "", r.why)
    /\ UNCHANGED <<started, env, inlineOnly, initialUrl, script, routerNav, srcOn,
                   waitEnd, replay, nTimer, nWait, readers, pathname, nNavs, paired,
                   nEmit, prevUrl, lastNav, nGets, nSets>>

----------------------------------------------------------------------------
(* Route discovery: the values scullyConfig.extraRoutes can hold *)

Str(s) == [t |-> "string", s |-> s, id |-> 0, xs |-> <<>>]
Num(n) == [t |-> "number", s |-> <<>>, id |-> n, xs |-> <<>>]
Bool(b) == [t |-> "boolean", s |-> <<>>, id |-> IF b THEN 1 ELSE 0, xs |-> <<>>]
UndefV == [t |-> "undefined", s |-> <<>>, id |-> 0, xs |-> <<>>]
PlainObj == [t |-> "object", s |-> <<>>, id |-> 0, xs |-> <<>>]
Arr(xs) == [t |-> "array", s |-> <<>>, id |-> 0, xs |-> xs]
\* promise number id, resolving to v / rejecting
Resolves(id, v) == [t |-> "promise", s |-> <<>>, id |-> id, xs |-> <<v>>]
Rejects(id) == [t |-> "promise", s |-> <<>>, id |-> id, xs |-> <<>>]

\* Truthy without the check of line 66
TruthyMutAlways(x) == TRUE

\* !x is false
Truthy(x) ==
    CASE x.t = "string" -> x.s # <<>>
      [] x.t \in {"number", "boolean"} -> x.id # 0
      [] x.t = "undefined" -> FALSE
      [] OTHER -> TRUE

\* line 63
isPromise(x) == Truthy(x) /\ x.t = "promise"
Settled(p) == Len(p.xs) = 1
Awaited(p) == p.xs[1]

\* what an async function ends with
Returned(routes, warned) == [ok |-> TRUE, routes |-> routes, warned |-> warned]
Thrown == [ok |-> FALSE, routes |-> <<>>, warned |-> FALSE]

\* Array.prototype.includes
Includes(list, r) == \E i \in 1..Len(list) : list[i] = r

\* Dedup that pushes every element
DedupMutKeepAll(list, workList) == workList \o list

RECURSIVE Dedup(_, _)
\* lines 82-88: extraRoutes.forEach, pushing what workList does not include
Dedup(list, workList) ==
    IF list = <<>> THEN workList
    ELSE Dedup(Tail(list),
               IF Includes(workList, Head(list)) THEN workList
               ELSE Append(workList, Head(list)))

\* lines 106-110: the strings of a resolved array
StringsOf(x) ==
    LET strs == SelectSeq(x.xs, LAMBDA e : e.t = "string")
    IN  [i \in 1..Len(strs) |-> strs[i].s]

RECURSIVE Collect(_, _)
\* lines 95-114: the loop over workList, result so far in result
Collect(workList, result) ==
    IF workList = <<>> THEN Returned(result, FALSE)
    ELSE LET route == Head(workList)
         IN  IF route.t = "string" THEN Collect(Tail(workList), Append(result, route.s))
             ELSE IF isPromise(route)
             THEN IF ~Settled(route) THEN Thrown
                  ELSE LET x == Awaited(route)
                       IN  Collect(Tail(workList),
                                   IF x.t = "string" THEN Append(result, x.s)
                                   ELSE IF x.t = "array" THEN result \o StringsOf(x)
                                   ELSE result)
             ELSE Collect(Tail(workList), result)

\* line 80: workList.concat(outerResult) builds a new array and drops it
ConcatDropped(workList, outerResult) == workList

\* addExtraRoutes (lines 62-115)
addExtraRoutes(extraRoutes) ==
    IF ~Truthy(extraRoutes) THEN Returned(<<>>, FALSE)
    ELSE IF extraRoutes.t = "string" THEN Returned(<<extraRoutes.s>>, FALSE)
    ELSE IF isPromise(extraRoutes)
    THEN IF ~Settled(extraRoutes) THEN Thrown
         ELSE LET outerResult == Awaited(extraRoutes)
              IN  IF outerResult.t = "string" THEN Returned(<<outerResult.s>>, FALSE)
                  ELSE Collect(ConcatDropped(<<>>, outerResult), <<>>)
    ELSE IF extraRoutes.t = "array" THEN Collect(Dedup(extraRoutes.xs, <<>>), <<>>)
    ELSE Returned(<<>>, TRUE)

----------------------------------------------------------------------------
(* Route discovery: traverseAppRoutes *)

RouteA == <<"/", "a">>
RouteC == <<"c">>
RouteD == <<"d">>
Root == <<"/">>

ExtraRouteValues ==
    { UndefV, Num(0), Bool(FALSE), Str(<<>>), Num(42), Bool(TRUE), PlainObj,
      Str(RouteA), Str(Root),
      Resolves(1, Str(RouteC)), Resolves(1, Arr(<<Str(RouteC), Str(RouteD)>>)),
      Resolves(1, Num(42)), Resolves(1, Arr(<<>>)), Rejects(1),
      Arr(<<>>), Arr(<<Str(RouteA), Str(RouteC), Str(RouteA)>>),
      Arr(<<Str(RouteA), Num(42), Resolves(1, Arr(<<Str(RouteC), Num(42), Str(RouteA)>>))>>),
      Arr(<<Resolves(1, Str(RouteC)), Resolves(2, Str(RouteC)), Resolves(1, Str(RouteC))>>),
      Arr(<<Str(<<" ", "/", " ">>)>>), Arr(<<Str(<<>>)>>), Arr(<<Str(Root), Str(RouteA)>>),
      Arr(<<Str(RouteA), Rejects(1)>>) }

\* what parseAngularRoutes does with the application: throws, or finds routes
ParseOutcomes ==
    { [throws |-> TRUE, paths |-> <<>>] } \cup
    { [throws |-> FALSE, paths |-> ps] :
        ps \in {<<>>, <<Root, RouteA>>, <<RouteA>>, <<<<>>, RouteA>>} }

Configs ==
    [extraRoutes : ExtraRouteValues, parse : ParseOutcomes, sge : BOOLEAN,
     exists : [1..3 -> BOOLEAN]]

\* lines 21-37: the first tsconfig.app.json that exists (0: none, parse the folder)
Located(exists) ==
    IF exists[1] THEN 1 ELSE IF exists[2] THEN 2 ELSE IF exists[3] THEN 3 ELSE 0

\* IsRootRoute without trim()
IsRootRouteMutNoTrim(r) == r = <<>> \/ r = Root

IsRootRoute(r) == Trim(r) = <<>> \/ Trim(r) = Root

\* lines 54-59
WithRoot(allRoutes) ==
    IF \E i \in 1..Len(allRoutes) : IsRootRoute(allRoutes[i]) THEN allRoutes
    ELSE Append(allRoutes, Root)

\* Caught with the flag ignored
CaughtMutAlwaysDump(sge) == <<"console.error", "logError">>

\* lines 38-52: the catch block
Caught(sge) == (IF sge THEN <<"console.error">> ELSE <<>>) \o <<"logError">>

\* line 14: await addExtraRoutes()
AwaitExtraRoutes ==
    /\ rpc = "start"
    /\ LET r == addExtraRoutes(cfg.extraRoutes)
       IN  /\ extra' = r
           /\ logs' = IF r.warned THEN Append(logs, "logWarn extraRoutes") ELSE logs
           /\ rpc' = IF r.ok THEN "parse" ELSE "failed"
    /\ UNCHANGED <<cfg, out>>

\* lines 15-59 of traverseAppRoutes
ParseAndCombine ==
    /\ rpc = "parse"
    /\ rpc' = "done"
    /\ LET found == Located(cfg.exists)
           warn == IF found = 0 THEN <<"logWarn tsconfig">> ELSE <<>>
           routes == IF cfg.parse.throws THEN <<>> ELSE cfg.parse.paths
       IN  /\ logs' = logs \o warn \o (IF cfg.parse.throws THEN Caught(cfg.sge) ELSE <<>>)
           /\ out' = [routes |-> WithRoot(routes \o extra.routes), parsed |-> found]
    /\ UNCHANGED <<cfg, extra>>

----------------------------------------------------------------------------
(* The service as a state machine *)

\* the service after construction (lines 45-79), in one of the environments
InitService ==
    /\ started = FALSE
    /\ env \in Envs
    /\ inlineOnly = FALSE
    /\ initialUrl = Undefined
    /\ currentBaseUrl = NoSection
    /\ stateBS = EmptyState
    /\ script = <<>>
    /\ routerNav = Undefined
    /\ srcOn = FALSE
    /\ waitEnd = Undefined
    /\ replay = Undefined
    /\ subs = <<>>
    /\ fetches = {}
    /\ nTimer = 0
    /\ nWait = 0
    /\ readers = {}
    /\ delivered = [k \in Keys |-> "nothing"]
    /\ driverError = FALSE
    /\ pathname = <<>>
    /\ nNavs = 0
    /\ paired = TRUE
    /\ nEmit = 0
    /\ prevUrl = Undefined
    /\ lastNav = 0
    /\ nFetch = 0
    /\ nGets = 0
    /\ nSets = 0
    /\ lastPub = 0
    /\ undefSince = FALSE
    /\ lastOp = Op("new", "", "", "")

RoutesIdle ==
    /\ rpc = "off"
    /\ cfg = <<>>
    /\ extra = <<>>
    /\ out = <<>>
    /\ logs = <<>>

Init == InitService /\ RoutesIdle

Next ==
    \/ /\ \E w \in Windows(env) : startMonitoring(w.inline, w.path, w.seeded)
       /\ UNCHANGED routeVars
    \/ (\E name \in ReadKeys : getState(name)) /\ UNCHANGED routeVars
    \/ (\E name \in Keys, val \in Vals : setState(name, val)) /\ UNCHANGED routeVars
    \/ TimerFires /\ UNCHANGED routeVars
    \/ (\E url \in Urls : NavigationStart(url)) /\ UNCHANGED routeVars
    \/ (\E after \in Redirects(routerNav) : NavigationEnd(after)) /\ UNCHANGED routeVars
    \/ NavigationCancel /\ UNCHANGED routeVars
    \/ (\E f \in fetches : \E resp \in Responses(f.url, inlineOnly) : FetchSettles(f, resp))
       /\ UNCHANGED routeVars

Spec == Init /\ [][Next]_vars

\* one run of traverseAppRoutes for each configuration
InitRoutes ==
    /\ InitService /\ env = "none"
    /\ rpc = "start"
    /\ cfg \in Configs
    /\ extra = <<>>
    /\ out = <<>>
    /\ logs = <<>>

NextRoutes ==
    \/ AwaitExtraRoutes /\ UNCHANGED svcVars
    \/ ParseAndCombine /\ UNCHANGED svcVars

SpecRoutes == InitRoutes /\ [][NextRoutes]_vars

----------------------------------------------------------------------------
(* Properties of the service *)

Tracking == {i \in 1..Len(subs) : subs[i].st = "tracking"}

\* C1: right after setState(k, v) the snapshot maps k to v and every other
\* key of the previous snapshot (the undefined one has none) to its previous
\* value; a reader of k receives v, whether it subscribed before the call or
\* calls getState(k) right after it.
C1_SetStateThenRead ==
    [][ /\ lastOp'.op = "setState" =>
            /\ stateBS'.tag = "obj"
            /\ Get(stateBS'.kv, lastOp'.key) = lastOp'.val
            /\ \A k \in Keys \ {lastOp'.key} :
                  Has(stateBS.kv, k) =>
                      Has(stateBS'.kv, k) /\ Get(stateBS'.kv, k) = Get(stateBS.kv, k)
            /\ lastOp'.key \in readers => delivered'[lastOp'.key] = lastOp'.val
        /\ (lastOp.op = "setState" /\ lastOp'.op = "getState" /\ lastOp'.key = lastOp.key)
              => delivered'[lastOp.key] = lastOp.val
      ]_vars

\* setState(k1, v) ran on a snapshot that held k2, and a reader of k1 exists
C1_Witness ==
    /\ lastOp.op = "setState" /\ lastOp.key = "k1" /\ lastOp.how = "obj"
    /\ "k1" \in readers
    /\ Get(stateBS.kv, "k2") = "v0"

\* C2 as stated: whenever a fetch the driver started fails, the snapshot
\* becomes {} and no error reaches the subscriber.
C2_EveryFailurePublishesEmpty ==
    [][ (lastOp'.op = "settle" /\ lastOp'.how # "ok")
            => (stateBS' = EmptyState /\ ~driverError') ]_vars

\* C2 amended: when a fetch fails that its subscription still holds (switchMap
\* has not replaced it by the fetch for a newer url), the snapshot becomes {}
\* and no error reaches the subscriber; the failure of a replaced fetch
\* publishes nothing and raises no error either.
C2_HeldFailurePublishesEmpty ==
    [][ (lastOp'.op = "settle" /\ lastOp'.how # "ok")
            => /\ ~driverError'
               /\ lastOp'.key # "superseded" => stateBS' = EmptyState
               /\ lastOp'.key = "superseded" => stateBS' = stateBS /\ delivered' = delivered
      ]_vars

\* in inline-only mode a fetched index.html without the markers gave {}
C2_Witness ==
    /\ lastOp.op = "settle" /\ lastOp.how = "no markers" /\ lastOp.key = "tracking"
    /\ inlineOnly
    /\ stateBS = EmptyState

\* C3: when the data fetched for the latest resolved url U2 is published and
\* the last data published was that of the url U1 resolved just before it,
\* with another first path segment, the snapshot has been undefined in between.
C3_UndefinedBetweenSections ==
    [][ ( /\ lastOp'.op = "settle" /\ lastOp'.how = "ok" /\ lastOp'.key # "superseded"
          /\ lastPub' = nEmit
          /\ lastPub >= 1 /\ lastPub = nEmit - 1
          /\ base(prevUrl) # base(replay) )
            => undefSince ]_vars

\* C4 as stated: a resolved url with the first path segment of the one before
\* it causes no fetch.
C4_NoFetchOnSecondUrl ==
    [][ ( /\ lastOp'.op = "NavigationEnd" /\ lastOp'.how = "emit"
          /\ nEmit >= 1
          /\ base(replay') = base(replay) )
            => nFetch' = nFetch ]_vars

\* C4 amended: a resolved url U2 with the first path segment of the one before
\* it starts no tracking subscription; every subscription that goes on
\* tracking starts one fetch, for U2, which replaces the fetch it held.
C4_OneFetchPerTrackedUrl ==
    [][ ( /\ lastOp'.op = "NavigationEnd" /\ lastOp'.how = "emit"
          /\ nEmit >= 1
          /\ base(replay') = base(replay) )
            => /\ Len(subs') = Len(subs)
               /\ Tracking' \subseteq Tracking
               /\ nFetch' = nFetch + Cardinality(Tracking')
               /\ \A i \in Tracking' :
                     /\ Cardinality({f \in fetches' : f.sub = i /\ f.live}) = 1
                     /\ \A f \in fetches' : (f.sub = i /\ f.live) => f.url = replay'
      ]_vars

\* the second url of a section was resolved while the fetch for the first was
\* in flight: the subscription fetched again
C4_Witness ==
    /\ lastOp.op = "NavigationEnd" /\ lastOp.how = "emit"
    /\ nEmit = 2 /\ base(prevUrl) = base(replay) /\ prevUrl # replay
    /\ Tracking # {}
    /\ nFetch = 2
    /\ \E f \in fetches : ~f.live /\ f.url = prevUrl

\* C5: on a generated page where every navigation ran from its start to its
\* end, a navigation is emitted unless it is the first one and its target is
\* the configured initial url.
C5_OnlyFirstInitialNavigationOmitted ==
    [][ (lastOp'.op = "NavigationEnd" /\ env = "generated" /\ paired)
            => ((nEmit' = nEmit + 1)
                  <=> ~(nNavs = 1 /\ routerNav = InitialUrlOf(pathname))) ]_vars

\* C6: when a fetch resolves whose subscription has already seen a url of
\* another base route (its takeWhile has ended), the data it fetched is not
\* published: the snapshot and what the readers hold stay as they are.
C6_AbandonedFetchNotPublished ==
    [][ (lastOp'.op = "settle" /\ lastOp'.key = "draining" /\ lastOp'.how = "ok")
            => (stateBS' = stateBS /\ delivered' = delivered) ]_vars

----------------------------------------------------------------------------
(* The service on a generated page, with its timers and fetches completing *)

\* a generated page: isScullyGenerated() holds
InitGenerated == Init /\ env = "generated"

\* the setTimeout of line 159 runs its callback
TimerStep == TimerFires /\ UNCHANGED routeVars

\* a promise of line 174 settles
SettleStep ==
    /\ \E f \in fetches : \E resp \in Responses(f.url, inlineOnly) : FetchSettles(f, resp)
    /\ UNCHANGED routeVars

\* the router closes the navigation in progress: NavigationEnd, or a cancel
RouterStep ==
    /\ (\E after \in Redirects(routerNav) : NavigationEnd(after)) \/ NavigationCancel
    /\ UNCHANGED routeVars

\* the page's components only read the state, which comes from data.json
NextLive ==
    \/ /\ \E w \in Windows(env) : ~w.inline /\ startMonitoring(w.inline, w.path, w.seeded)
       /\ UNCHANGED routeVars
    \/ (\E name \in ReadKeys : getState(name)) /\ UNCHANGED routeVars
    \/ TimerStep
    \/ (\E url \in Urls : NavigationStart(url)) /\ UNCHANGED routeVars
    \/ RouterStep
    \/ SettleStep

\* the browser runs every timer, every fetch resolves or rejects, and the
\* router closes every navigation it starts
SpecLive ==
    /\ InitGenerated /\ [][NextLive]_vars
    /\ WF_vars(TimerStep) /\ WF_vars(SettleStep) /\ WF_vars(RouterStep)

\* the page's components only write the state, with any of the values of
\* StateVals, while the user navigates
NextPayload ==
    \/ /\ \E w \in Windows(env) : startMonitoring(w.inline, w.path, w.seeded)
       /\ UNCHANGED routeVars
    \/ (\E name \in Keys, val \in StateVals : setState(name, val)) /\ UNCHANGED routeVars
    \/ (\E url \in Urls : NavigationStart(url)) /\ UNCHANGED routeVars
    \/ RouterStep

SpecPayload == Init /\ [][NextPayload]_vars

\* a component called getState for the page of navigation k: while the
\* navigation is under way, or after it has ended and its url was emitted
AskedForPage(k) ==
    /\ lastOp.op = "getState"
    /\ nNavs = k
    /\ \/ routerNav # Undefined /\ waitEnd = routerNav
       \/ routerNav = Undefined /\ lastNav = k

\* the last thing the driver published is what the fetch for the url of
\* navigation k gave: the page's data, or {} after a failure
PublishedForPage(k) == lastNav = k /\ nEmit >= 1 /\ lastPub \in {nEmit, 0 - nEmit}

\* navigation k did not complete, or the user has navigated on
LeftPage(k) == nNavs > k \/ (nNavs = k /\ routerNav = Undefined /\ lastNav # k)

\* C11: when a component calls getState for the page of a navigation that is
\* not suppressed, between the navigation's start and after its end, and
\* timers run and fetches settle, then unless the navigation is cancelled or
\* followed by another, the driver eventually publishes the outcome of a
\* fetch for that page's resolved url.
C11_PageStateEventuallyPublished ==
    \A k \in 1..MaxNavs :
        AskedForPage(k) ~> (PublishedForPage(k) \/ LeftPage(k))

\* C12: a reader of getState(key) receives nothing when the undefined
\* snapshot is published (or is the current one when it subscribes); whenever
\* the current snapshot is defined, what each reader received last is that
\* snapshot's value at its key; keys nobody reads receive nothing.
C12_ReadersSeeOnlyDefinedSnapshots ==
    [][ /\ stateBS'.tag = "undefined" =>
            \A k \in Keys : delivered'[k] = IF k \in readers THEN delivered[k] ELSE "nothing"
        /\ stateBS'.tag = "obj" =>
            \A k \in readers' : delivered'[k] = Get(stateBS'.kv, k)
        /\ \A k \in Keys \ readers' : delivered'[k] = "nothing"
      ]_vars

\* a reader held the data of a page when a navigation published undefined,
\* and still holds it
C12_Witness ==
    /\ lastOp.op = "NavigationStart" /\ stateBS.tag = "undefined"
    /\ "k1" \in readers
    /\ delivered["k1"] = "dA1"

\* what a reader of the embedded script's text gets: readFromIndex's slice
\* between the sentinels, parsed
ReadBack(text) == readFromIndex(text)
SameReads(kv1, kv2) == \A k \in Keys : Get(kv1, k) = Get(kv2, k)

\* C13: setState changes the text of the embedded script only when Scully is
\* running (page generation); there the text is then the assignment, the start
\* sentinel, the JSON text of the whole merged snapshot and the end sentinel,
\* and slicing it between the sentinels and parsing gives a snapshot with the
\* same value at every key; elsewhere setState leaves the text as it was.
C13_PayloadRoundTrips ==
    [][ lastOp'.op = "setState" =>
          IF env = "running"
          THEN /\ script' = <<ScriptAssign, SCULLY_STATE_START>>
                               \o stringify(stateBS'.kv) \o <<SCULLY_STATE_END>>
               /\ \A k \in Keys \ {lastOp'.key} :
                      Get(stateBS'.kv, k) = Get(stateBS.kv, k)
               /\ ReadBack(script').ok
               /\ SameReads(ReadBack(script').kv, stateBS'.kv)
          ELSE script' = script
      ]_vars

\* nextUrl emitted a resolved url in this step
Emitted == lastOp'.op = "NavigationEnd" /\ lastOp'.how = "emit"

\* C14: while the base marker holds a base route B, it keeps holding B over
\* every step (a resolved url of base B, a fetch that resolves or fails) but
\* the arrival of a resolved url of another base route, and that arrival
\* takes the marker off B.
C14_TrackingEndsOnlyOnOtherBase ==
    [][ currentBaseUrl # NoSection =>
          ((currentBaseUrl' # currentBaseUrl)
              <=> (Emitted /\ base(replay') # currentBaseUrl)) ]_vars

\* the subscriptions of line 169 that can still publish a snapshot
CanPublish == {i \in 1..Len(subs) : subs[i].st # "done"}

\* C15: at most one subscription made by fetchTransferState can still publish
\* a snapshot.
C15_AtMostOnePipeline == Cardinality(CanPublish) <= 1

\* C16 as stated: a NavigationStart to a url of the base route that is being
\* tracked (a url the router does not redirect) leaves the snapshot as it is.
C16_NoResetWithinTrackedBase ==
    [][ ( /\ lastOp'.op = "NavigationStart"
          /\ Tracking # {} /\ base(routerNav') = currentBaseUrl
          /\ Redirects(routerNav') = {<<>>} )
            => stateBS' = stateBS ]_vars

\* C16 amended: once nextUrl is connected to the router, every NavigationStart
\* makes the snapshot undefined, within the tracked base route too, but the one
\* to the initial url that the latch swallows (and that one leaves the snapshot
\* as it is); no other step makes the snapshot undefined.
C16_ResetOnEveryLetThroughStart ==
    [][ /\ lastOp'.op = "NavigationStart" =>
            stateBS' = IF srcOn /\ initialUrl # routerNav' THEN UndefState ELSE stateBS
        /\ (stateBS'.tag = "undefined" /\ stateBS.tag # "undefined")
              => lastOp'.op = "NavigationStart"
      ]_vars

\* a navigation within the tracked base route replaced the page's data by
\* the undefined snapshot
C16_Witness ==
    /\ lastOp.op = "NavigationStart" /\ stateBS.tag = "undefined"
    /\ Tracking # {} /\ base(routerNav) = currentBaseUrl
    /\ lastPub = nEmit /\ nEmit >= 1
    /\ delivered["k1"] = DataVal(replay)

\* C17: nextUrl emits only in the step of a NavigationEnd whose url is the
\* url of the latest NavigationStart that was let through, once for that
\* start, and what it emits is the end event's urlAfterRedirects, or its url
\* when there is none; a NavigationStart emits nothing and makes nextUrl wait
\* for its own url only (for what it waited before when the start is
\* swallowed), so a start that a newer one supersedes gives no emission.
C17_EmitsOnMatchingEndOnly ==
    [][ /\ nEmit' # nEmit =>
            /\ lastOp'.op = "NavigationEnd" /\ nEmit' = nEmit + 1
            /\ srcOn /\ routerNav # Undefined /\ waitEnd = routerNav
            /\ Text(replay') = IF lastOp'.val # "" THEN lastOp'.val ELSE Text(routerNav)
            /\ waitEnd' = Undefined
        /\ (lastOp'.op = "NavigationEnd" /\ waitEnd # routerNav) =>
            (nEmit' = nEmit /\ replay' = replay)
        /\ lastOp'.op = "NavigationStart" =>
            /\ nEmit' = nEmit /\ replay' = replay
            /\ waitEnd' = IF srcOn /\ initialUrl # routerNav' THEN routerNav' ELSE waitEnd
      ]_vars

\* a navigation to /a/1 was superseded by one to /a/2, which the router
\* redirected to /b/1: that is the one url emitted
C17_Witness ==
    /\ lastOp.op = "NavigationEnd" /\ lastOp.how = "emit" /\ lastOp.val = "/b/1"
    /\ replay = UrlB1 /\ prevUrl = Undefined
    /\ nNavs = 2 /\ nEmit = 1 /\ ~paired
    /\ env = "generated" /\ pathname = <<>>

\* C19: the result of a fetch that its subscription replaced by the fetch for
\* a newer url is not published, whenever it arrives; what a subscription
\* that is still tracking publishes when a fetch resolves is the data of the
\* latest resolved url.
C19_OnlyLatestFetchPublished ==
    [][ /\ (lastOp'.op = "settle" /\ lastOp'.key = "superseded") =>
            (stateBS' = stateBS /\ delivered' = delivered /\ lastPub' = lastPub)
        /\ (lastOp'.op = "settle" /\ lastOp'.key = "tracking" /\ lastOp'.how = "ok") =>
            (stateBS' = Obj(DataOf(replay)) /\ lastPub' = nEmit)
      ]_vars

\* two urls of one base route were resolved; the fetch for the second
\* resolved first and was published, then the fetch for the first resolved
C19_Witness ==
    /\ lastOp.op = "settle" /\ lastOp.key = "superseded" /\ lastOp.how = "ok"
    /\ nEmit = 2 /\ base(prevUrl) = base(replay) /\ prevUrl # replay
    /\ lastPub = 2 /\ fetches = {}
    /\ stateBS = Obj(DataOf(replay))

\* C20: every subscription that is still taking resolved urls tracks the base
\* route the marker holds.
C20_MarkerIsTrackedBase ==
    \A i \in 1..Len(subs) : subs[i].st = "tracking" => currentBaseUrl = subs[i].base

----------------------------------------------------------------------------
(* Properties of route discovery *)

Combined == (IF cfg.parse.throws THEN <<>> ELSE cfg.parse.paths) \o extra.routes
TrimsToRoot(list) == \E i \in 1..Len(list) : Trim(list[i]) \in {<<>>, Root}
AllStrings(x) == \A i \in 1..Len(x.xs) : x.xs[i].t = "string"

\* C7: a string s gives [s], a deferred string s gives [s], a deferred array of
\* strings gives the list of those strings.
C7_FlattensEveryShape ==
    rpc # "start" =>
        LET x == cfg.extraRoutes
        IN  /\ (x.t = "string" /\ x.s # <<>>) => (extra.ok /\ extra.routes = <<x.s>>)
            /\ (x.t = "promise" /\ Settled(x) /\ Awaited(x).t = "string")
                  => (extra.ok /\ extra.routes = <<Awaited(x).s>>)
            /\ (x.t = "promise" /\ Settled(x) /\ Awaited(x).t = "array"
                  /\ AllStrings(Awaited(x)))
                  => (extra.ok /\ extra.routes = StringsOf(Awaited(x)))

\* C8 as stated: the returned list contains '/', and no '/' is appended when
\* the combined list already contains '/'.
C8_AlwaysContainsSlash ==
    rpc = "done" =>
        /\ Includes(out.routes, Root)
        /\ Includes(Combined, Root) => out.routes = Combined

\* C8 amended: the returned list contains an entry that trims to '/' or to the
\* empty string; it is the combined list when that holds such an entry (so no
\* '/' is appended when '/' is already there), and the combined list followed
\* by '/' otherwise.
C8_RootRouteEnsured ==
    rpc = "done" =>
        /\ TrimsToRoot(out.routes)
        /\ Includes(Combined, Root) => out.routes = Combined
        /\ out.routes = IF TrimsToRoot(Combined) THEN Combined ELSE Append(Combined, Root)

\* neither the parser nor the extra routes gave a root route: '/' was appended
C8_Witness ==
    /\ rpc = "done"
    /\ ~cfg.parse.throws /\ cfg.parse.paths # <<>> /\ extra.routes # <<>>
    /\ ~TrimsToRoot(Combined)
    /\ out.routes[Len(out.routes)] = Root

\* C9: when the parser throws, traverseAppRoutes still returns: the extra
\* routes in their order, then '/' unless one of them trims to '' or '/'; the
\* diagnostic is logged, and the raw error only with the showGuessError flag.
C9_ParseFailureRecovered ==
    /\ rpc = "failed" => ~extra.ok
    /\ (rpc = "done" /\ cfg.parse.throws) =>
          /\ Includes(logs, "logError")
          /\ Includes(logs, "console.error") => cfg.sge
          /\ out.routes = IF TrimsToRoot(extra.routes) THEN extra.routes
                          ELSE Append(extra.routes, Root)

\* the parser threw, the flag was set, and there were extra routes
C9_Witness ==
    /\ rpc = "done" /\ cfg.parse.throws /\ cfg.sge
    /\ Len(extra.routes) = 2
    /\ Includes(logs, "console.error")
    /\ Len(out.routes) = 3

NotAShape(x) == x.t \notin {"string", "array", "promise"}
IsFalsy(x) == x.t = "undefined" \/ (x.t \in {"number", "boolean"} /\ x.id = 0)

\* C10 as stated: a value that is no string, array or deferred value gives a
\* warning and the empty list.
C10_WarnsOnEveryOtherValue ==
    (rpc # "start" /\ NotAShape(cfg.extraRoutes) /\ cfg.extraRoutes.t # "undefined")
        => (extra.ok /\ extra.routes = <<>> /\ Includes(logs, "logWarn extraRoutes"))

\* C10 amended: such a value gives the empty list; a warning is logged when the
\* value is truthy (42, true, a plain object) and none when it is falsy
\* (0, false, undefined).
C10_WarnsOnTruthyOtherValue ==
    (rpc # "start" /\ NotAShape(cfg.extraRoutes))
        => /\ extra.ok /\ extra.routes = <<>>
           /\ Includes(logs, "logWarn extraRoutes") <=> ~IsFalsy(cfg.extraRoutes)

\* extraRoutes was 42
C10_Witness ==
    /\ rpc = "done"
    /\ cfg.extraRoutes = Num(42)
    /\ logs[1] = "logWarn extraRoutes"
    /\ extra.routes = <<>>

\* what one element of the array stands for: a string for itself, a deferred
\* element for the string or the strings of the array it resolved to
Expansion(e) ==
    IF e.t = "string" THEN <<e.s>>
    ELSE IF e.t = "promise" /\ Settled(e)
    THEN IF Awaited(e).t = "string" THEN <<Awaited(e).s>>
         ELSE IF Awaited(e).t = "array" THEN StringsOf(Awaited(e))
         ELSE <<>>
    ELSE <<>>

RECURSIVE ExpandedUpTo(_, _)
\* the expansions of the first n elements, in order, without those of the
\* elements that repeat an earlier element
ExpandedUpTo(xs, n) ==
    IF n = 0 THEN <<>>
    ELSE ExpandedUpTo(xs, n - 1)
         \o (IF \E j \in 1..(n - 1) : xs[j] = xs[n] THEN <<>> ELSE Expansion(xs[n]))

NoRejection(xs) == \A i \in 1..Len(xs) : xs[i].t = "promise" => Settled(xs[i])

\* C18: for an array whose deferred elements all resolve, addExtraRoutes returns
\* the expansions of the elements in input order: a later repetition of an
\* element is left out, a deferred element gives the string or the strings of
\* the array it resolved to, everything that is no string is skipped, and the
\* strings that come out of deferred elements are kept even when they repeat.
C18_ArrayFlattenedInOrder ==
    (rpc # "start" /\ cfg.extraRoutes.t = "array" /\ NoRejection(cfg.extraRoutes.xs))
        => /\ extra.ok /\ ~extra.warned
           /\ extra.routes = ExpandedUpTo(cfg.extraRoutes.xs, Len(cfg.extraRoutes.xs))

\* ['/a', 42, p] with p resolving to ['c', 42, '/a'] gave ['/a', 'c', '/a']
C18_Witness ==
    /\ rpc = "done"
    /\ cfg.extraRoutes.t = "array" /\ Len(cfg.extraRoutes.xs) = 3
    /\ cfg.extraRoutes.xs[3].t = "promise"
    /\ extra.routes = <<RouteA, RouteC, RouteA>>

====
